---- MODULE Spec2Model ----
(***************************************************************************)
(* Blended latent diffusion, scripts/text_editing_stable_diffusion.py.     *)
(*                                                                         *)
(* The module models BlendedLatnetDiffusion: parse_args, edit_image (one   *)
(* action per stage of the function and per half of the loop body),        *)
(* morph_dilation, _image2latent and _read_mask.                           *)
(*                                                                         *)
(* Tensors are functions from the positions of the latent grid to          *)
(* integers.  The batch and channel axes are dropped: every statement of   *)
(* edit_image treats all batch elements and channels alike and the mask    *)
(* is broadcast over them.  The pretrained networks and the DDIM           *)
(* scheduler are libraries outside the repository; each is a fixed         *)
(* deterministic function of its arguments here (a torch module in eval    *)
(* mode under no_grad), named after the call it stands for.                *)
(***************************************************************************)
EXTENDS Integers, Sequences, FiniteSets, TLC

\* ------------------------------------------------------------------ bounds

\* side of the latent grid and of the mask (64 in the code, dest_size)
MaskSide == 2
\* largest num_inference_steps
MaxSteps == 4
\* number of calls of edit_image on one object
MaxCalls == 2
\* largest threshold / dilation_init / step index handed to morph_dilation
\* when it is exercised on its own
MaxThreshold == 3
MaxDilationInit == 5
MaxIndex == 6

\* ------------------------------------------------------------------ grid

Side == 1..MaskSide
Pos == Side \X Side
Idx(p) == (p[1] - 1) * MaskSide + p[2]

Min2(a, b) == IF a < b THEN a ELSE b
Max2(a, b) == IF a > b THEN a ELSE b

RECURSIVE SetMax(_)
SetMax(S) ==
    IF S = {} THEN 0
    ELSE LET x == CHOOSE y \in S : TRUE
         IN  Max2(x, SetMax(S \ {x}))

RECURSIVE SetMin(_)
SetMin(S) ==
    IF S = {} THEN 1
    ELSE LET x == CHOOSE y \in S : TRUE
         IN  IF S = {x} THEN x ELSE Min2(x, SetMin(S \ {x}))

\* Python values of args.morph: a bool or a str (s is "" for a bool)
PyBool(b) == [type |-> "bool", b |-> b, s |-> ""]
PyStr(s) == [type |-> "str", b |-> FALSE, s |-> s]
\* Python's  v == True : a str never equals a bool
PyEqTrue(v) == v.type = "bool" /\ v.b

\* ------------------------------------------------------------ parse_args

\* the values of --morph on the command line; "absent" is the option left out
MorphArgs == {"absent", "True", "1", "False"}

\* parser.add_argument("--morph", type=str, default=False): a given value is
\* kept as the string, the default is the bool False
ParseMorph(a) == IF a = "absent" THEN PyBool(FALSE) ELSE PyStr(a)

\* ---------------------------------------------------------------- files

GrayPairs == {<<0, 255>>, <<255, 0>>, <<0, 1>>, <<127, 128>>}

\* a square 8-bit grayscale image of side n: gray value hi inside the
\* rectangle r = <<r1, c1, r2, c2>>, lo outside
RectImage(n, r, lo, hi) ==
    [side |-> n,
     px |-> [q \in (1..n) \X (1..n) |->
               IF r[1] <= q[1] /\ q[1] <= r[3] /\ r[2] <= q[2] /\ q[2] <= r[4]
               THEN hi ELSE lo]]

Rects(n) ==
    {r \in (1..n) \X (1..n) \X (1..n) \X (1..n) : r[1] <= r[3] /\ r[2] <= r[4]}

\* the mask files edit_image is run on
MaskFiles ==
    {RectImage(MaskSide, r, g[1], g[2]) : r \in Rects(MaskSide), g \in GrayPairs}

\* the source image, one pixel per latent position
SourceImage == [p \in Pos |-> (97 + Idx(p) * 61) % 256]

\* --------------------------------------------------------------- _read_mask

\* Image.resize(dest_size, Image.NEAREST): output index j (from 1) reads the
\* input index floor((j - 1 + 0.5) * src / dst) + 1
NearestIdx(j, src, dst) == (((2 * (j - 1) + 1) * src) \div (2 * dst)) + 1

Resize(file) ==
    [p \in Pos |->
       file.px[<<NearestIdx(p[1], file.side, MaskSide),
                 NearestIdx(p[2], file.side, MaskSide)>>]]

\* lines 209-212 on one element, m the largest element of the resized array:
\* if m > 1 the array is divided by 255 and g / 255 < 0.5 is 2 g < 255;
\* otherwise the uint8 array is thresholded as it is
ThresholdWrong(g, m) == IF 2 * g < 255 THEN 0 ELSE 1
Threshold(g, m) ==
    IF m > 1
    THEN IF 2 * g < 255 THEN 0 ELSE 1
    ELSE IF 2 * g < 1 THEN 0 ELSE 1

ReadMask(file) ==
    LET mask == Resize(file)
        m == SetMax({mask[p] : p \in Pos})
    IN  [p \in Pos |-> Threshold(mask[p], m)]

\* ------------------------------------------------------------ morph_dilation

\* cv2.erode / cv2.dilate with a k x k kernel of ones, anchor at the kernel
\* centre (k \div 2, k \div 2); pixels outside the image are ignored
Window(p, k) ==
    {q \in Pos : /\ q[1] - p[1] \in (0 - (k \div 2))..(k - 1 - (k \div 2))
                 /\ q[2] - p[2] \in (0 - (k \div 2))..(k - 1 - (k \div 2))}

Erode(mask, k) == [p \in Pos |-> SetMin({mask[q] : q \in Window(p, k)})]

\* an empty kernel makes cv2.dilate fall back to its default 3 x 3 rectangle
Dilate(mask, k) ==
    LET kk == IF k = 0 THEN 3 ELSE k
    IN  [p \in Pos |-> SetMax({mask[q] : q \in Window(p, kk)})]

\* int(dilation_init * i / threshold), threshold # 0, operands >= 0
KernelSizeWrong(dilation_init, i, threshold) ==
    (dilation_init * threshold) \div i
KernelSize(dilation_init, i, threshold) == (dilation_init * i) \div threshold

\* i < threshold  (line 179)
Erodes(i, threshold) == i < threshold

\* morph_dilation(mask, i, threshold, dilation_init): the returned mask, or
\* the exception line 186 raises; op and kernel_size are what the call did
MorphDilation(mask, i, threshold, dilation_init) ==
    LET closed == mask   \* MORPH_CLOSE with a 1 x 1 kernel
    IN  IF Erodes(i, threshold)
        THEN [exception |-> "none", op |-> "erode", kernel_size |-> 2,
              i |-> i, mask |-> Erode(closed, 2)]
        ELSE IF threshold = 0
        THEN [exception |-> "ZeroDivisionError", op |-> "dilate",
              kernel_size |-> 0, i |-> i, mask |-> closed]
        ELSE LET k == KernelSize(dilation_init, i, threshold)
             IN  [exception |-> "none", op |-> "dilate", kernel_size |-> k,
                  i |-> i, mask |-> Dilate(closed, k)]

\* ------------------------------------------------- libraries edit_image calls

\* the value of a tensor that is not assigned yet
None == << >>

\* torch.randn(..., generator=generator) and torch.randn_like(latents): the
\* tensor a generator yields is a function of its state, here the number of
\* tensors drawn since torch.manual_seed(42); the CPU and the CUDA generator
\* are separate streams
Randn(g) == [p \in Pos |-> ((42 + 3 * g + 5 * Idx(p)) % 7) - 3]
RandnLike(g) == [p \in Pos |-> ((42 + 5 * g + 3 * Idx(p)) % 5) - 2]

\* DDIMScheduler.set_timesteps(n): (arange(0, n) * (1000 // n))[::-1]
SetTimesteps(n) == [k \in 1..n |-> (n - k) * (1000 \div n)]

\* self.unet(cat([latents] * 2), t, text_embeddings).sample.chunk(2)
UnetUncond(x, t) == [p \in Pos |-> ((x[p] + t) % 3) - 1]
UnetText(x, t) == [p \in Pos |-> ((2 * x[p] + t + Idx(p)) % 3) - 1]

\* noise_pred_uncond + guidance_scale * (noise_pred_text - noise_pred_uncond)
\* with guidance_scale = 7.5, in units of 1/2
Guidance(u, c) == [p \in Pos |-> 2 * u[p] + 15 * (c[p] - u[p])]

\* self.scheduler.step(noise_pred, t, latents).prev_sample
SchedulerStep(noise_pred, t, x) ==
    [p \in Pos |-> ((2 * x[p] - noise_pred[p] + t) % 7) - 3]

\* self.scheduler.add_noise(source_latents, noise, t)
AddNoise(src, noise, t) ==
    [p \in Pos |-> src[p] * (4 - (t \div 250)) + noise[p] * (t \div 250)]

\* _image2latent: vae.encode(image / 127.5 - 1).latent_dist.mean * 0.18215
Image2Latent(image) == [p \in Pos |-> (image[p] \div 32) - 4]

\* 1 / 0.18215 * latents, in units of 1/18215
Unscale(x) == [p \in Pos |-> 100000 * x[p]]

\* self.vae.decode(latents).sample, in units of 1/1000
VaeDecode(z) == [p \in Pos |-> 300 * (z[p] \div 100000)]

Clamp(x, lo, hi) == IF x < lo THEN lo ELSE IF x > hi THEN hi ELSE x

\* numpy round of n / d, n >= 0: halves go to the even neighbour
RoundHalfEven(n, d) ==
    LET q == n \div d
        r == n % d
    IN  IF 2 * r < d THEN q
        ELSE IF 2 * r > d THEN q + 1
        ELSE IF q % 2 = 0 THEN q ELSE q + 1

\* ((image / 2 + 0.5).clamp(0, 1) * 255).round().astype("uint8")
ToUint8(sample) ==
    [p \in Pos |-> RoundHalfEven(255 * Clamp(sample[p] + 1000, 0, 2000), 2000)]

\* ------------------------------------------------------------------ state

VARIABLES
    argv_morph,             \* --morph on the command line
    args_morph,             \* self.args.morph
    image_exists,           \* image_path names a readable image
    mask_exists,            \* mask_path names a readable image
    mask_file,              \* the image stored at mask_path
    num_inference_steps,
    blending_percentage,    \* <<numerator, denominator>>
    default_generator,      \* state of torch's default CPU generator
    cuda_generator,         \* state of torch's default CUDA generator
    pc,                     \* position in edit_image
    source_latents,
    latents,
    timesteps,
    total,
    threshold,
    dilation_init,
    i,
    latent_mask,
    noise_source_latents,
    candidate,              \* latents as line 145 left them, kept for the blend
    decoder_input,          \* the argument of self.vae.decode
    exception,              \* the exception edit_image raised, or "none"
    computed,               \* the model computations of this call, in order
    morph_log,              \* what each call of morph_dilation did
    results                 \* the arrays edit_image has returned

vars == <<argv_morph, args_morph, image_exists, mask_exists, mask_file,
          num_inference_steps, blending_percentage, default_generator,
          cuda_generator, pc, source_latents, latents, timesteps, total,
          threshold, dilation_init, i, latent_mask, noise_source_latents,
          candidate, decoder_input, exception, computed, morph_log, results>>

inputs == <<argv_morph, args_morph, image_exists, mask_exists, mask_file,
            num_inference_steps, blending_percentage>>

\* blending_percentage values whose product with a length is exact in floats
Percentages == {<<0, 1>>, <<1, 4>>, <<1, 2>>, <<3, 4>>, <<1, 1>>}

\* int(len(self.scheduler.timesteps) * blending_percentage)
LoopStartWrong(n, bp) == ((n - 1) * bp[1]) \div bp[2]
LoopStart(n, bp) == (n * bp[1]) \div bp[2]

\* the locals of edit_image before its first statement
Locals ==
    /\ source_latents = None
    /\ latents = None
    /\ timesteps = << >>
    /\ total = 0
    /\ threshold = 0
    /\ dilation_init = 0
    /\ i = 0
    /\ latent_mask = None
    /\ noise_source_latents = None
    /\ candidate = None
    /\ decoder_input = None
    /\ exception = "none"
    /\ computed = << >>
    /\ morph_log = << >>

\* the object after __init__ (parse_args, load_models) on a command line, the
\* module imported: the default argument generator=torch.manual_seed(42) was
\* evaluated once, at the def, and seeded the global generators
InitInputs ==
    /\ image_exists \in BOOLEAN
    /\ mask_exists \in BOOLEAN
    /\ mask_file \in MaskFiles
    /\ num_inference_steps \in 1..MaxSteps
    /\ blending_percentage \in Percentages
    /\ default_generator = 0
    /\ cuda_generator = 0
    /\ pc = "idle"
    /\ results = << >>
    /\ Locals

Init ==
    /\ argv_morph \in MorphArgs
    /\ args_morph = ParseMorph(argv_morph)
    /\ InitInputs

\* the same object after a caller has assigned  bld.args.morph = True , the
\* only value for which line 151's  self.args.morph == True  holds
InitMorph ==
    /\ argv_morph = "absent"
    /\ args_morph = PyBool(TRUE)
    /\ InitInputs

\* ------------------------------------------------------------- edit_image

\* a call of edit_image with the default generator argument (line 221, or a
\* later call on the same object)
Call ==
    /\ pc \in {"idle", "done"}
    /\ Len(results) < MaxCalls
    /\ pc' = "open"
    /\ source_latents' = None
    /\ latents' = None
    /\ timesteps' = << >>
    /\ total' = 0
    /\ threshold' = 0
    /\ dilation_init' = 0
    /\ i' = 0
    /\ latent_mask' = None
    /\ noise_source_latents' = None
    /\ candidate' = None
    /\ decoder_input' = None
    /\ exception' = "none"
    /\ computed' = << >>
    /\ morph_log' = << >>
    /\ UNCHANGED <<inputs, default_generator, cuda_generator, results>>

\* lines 83-86: Image.open, resize, _image2latent
OpenImage ==
    /\ pc = "open"
    /\ IF image_exists
       THEN /\ source_latents' = Image2Latent(SourceImage)
            /\ computed' = Append(computed, "vae.encode")
            /\ pc' = "text"
            /\ UNCHANGED exception
       ELSE /\ exception' = "FileNotFoundError:image"
            /\ pc' = "raised"
            /\ UNCHANGED <<source_latents, computed>>
    /\ UNCHANGED <<inputs, default_generator, cuda_generator, latents,
                   timesteps, total, threshold, dilation_init, i, latent_mask,
                   noise_source_latents, candidate, decoder_input, morph_log,
                   results>>

\* lines 88-105: tokenizer and text encoder, prompts and blank
EncodeText ==
    /\ pc = "text"
    /\ computed' = computed \o <<"text_encoder", "text_encoder">>
    /\ pc' = "randn"
    /\ UNCHANGED <<inputs, default_generator, cuda_generator, source_latents,
                   latents, timesteps, total, threshold, dilation_init, i,
                   latent_mask, noise_source_latents, candidate, decoder_input,
                   exception, morph_log, results>>

\* lines 107-120: initial noise, set_timesteps, total, threshold, dilation_init
SampleLatents ==
    /\ pc = "randn"
    /\ latents' = Randn(default_generator)
    /\ default_generator' = default_generator + 1
    /\ timesteps' = SetTimesteps(num_inference_steps)
    /\ total' = num_inference_steps
                  - Min2(LoopStart(num_inference_steps, blending_percentage),
                         num_inference_steps)
    /\ threshold' = total' \div 2
    /\ dilation_init' = 5
    /\ i' = 0
    /\ pc' = "loop"
    /\ UNCHANGED <<inputs, cuda_generator, source_latents, latent_mask,
                   noise_source_latents, candidate, decoder_input, exception,
                   computed, morph_log, results>>

\* the timestep of iteration i of the loop of line 122
T == timesteps[(Len(timesteps) - total) + i + 1]

\* lines 126-145: noise prediction, guidance, sampler step
Denoise ==
    /\ pc = "loop"
    /\ i < total
    /\ LET noise_pred == Guidance(UnetUncond(latents, T), UnetText(latents, T))
       IN  /\ latents' = SchedulerStep(noise_pred, T, latents)
           /\ candidate' = latents'
    /\ computed' = computed \o <<"unet", "scheduler.step">>
    /\ pc' = "mask"
    /\ UNCHANGED <<inputs, default_generator, cuda_generator, source_latents,
                   timesteps, total, threshold, dilation_init, i, latent_mask,
                   noise_source_latents, decoder_input, exception, morph_log,
                   results>>

\* the mask morph_dilation is given: the mask read this iteration (line 154)
MorphInput == ReadMask(mask_file)

\* lines 148-155: _read_mask and, if self.args.morph == True, morph_dilation
MaskStep ==
    /\ pc = "mask"
    /\ IF ~mask_exists
       THEN /\ exception' = "FileNotFoundError:mask"
            /\ pc' = "raised"
            /\ UNCHANGED <<latent_mask, morph_log>>
       ELSE IF PyEqTrue(args_morph)
       THEN LET res == MorphDilation(MorphInput, i, threshold, dilation_init)
            IN  /\ morph_log' = Append(morph_log, [res EXCEPT !.mask = << >>])
                /\ IF res.exception = "none"
                   THEN /\ latent_mask' = res.mask
                        /\ pc' = "blend"
                        /\ UNCHANGED exception
                   ELSE /\ latent_mask' = ReadMask(mask_file)
                        /\ exception' = res.exception
                        /\ pc' = "raised"
       ELSE /\ latent_mask' = ReadMask(mask_file)
            /\ pc' = "blend"
            /\ UNCHANGED <<exception, morph_log>>
    /\ UNCHANGED <<inputs, default_generator, cuda_generator, source_latents,
                   latents, timesteps, total, threshold, dilation_init, i,
                   noise_source_latents, candidate, decoder_input, computed,
                   results>>

\* the clean latent line 158 adds noise to
NoiseSourceWrong == IF i = 0 THEN source_latents ELSE latents
NoiseSource == source_latents

\* latents * latent_mask + noise_source_latents * (1 - latent_mask)
BlendLatentsWrong(x, mask, noised) ==
    [p \in Pos |-> x[p] * (1 - mask[p]) + noised[p] * mask[p]]
BlendLatents(x, mask, noised) ==
    [p \in Pos |-> x[p] * mask[p] + noised[p] * (1 - mask[p])]

\* lines 158-161: add_noise on the source latents, blend
Blend ==
    /\ pc = "blend"
    /\ noise_source_latents' =
           AddNoise(NoiseSource, RandnLike(cuda_generator), T)
    /\ cuda_generator' = cuda_generator + 1
    /\ latents' = BlendLatents(latents, latent_mask, noise_source_latents')
    /\ i' = i + 1
    /\ pc' = "loop"
    /\ UNCHANGED <<inputs, default_generator, source_latents, timesteps, total,
                   threshold, dilation_init, latent_mask, candidate,
                   decoder_input, exception, computed, morph_log, results>>

\* lines 163-172: unscale, decode, convert, return
Decode ==
    /\ pc = "loop"
    /\ i = total
    /\ decoder_input' = Unscale(latents)
    /\ computed' = Append(computed, "vae.decode")
    /\ results' = Append(results, ToUint8(VaeDecode(decoder_input')))
    /\ pc' = "done"
    /\ UNCHANGED <<inputs, default_generator, cuda_generator, source_latents,
                   latents, timesteps, total, threshold, dilation_init, i,
                   latent_mask, noise_source_latents, candidate, exception,
                   morph_log>>

Next ==
    \/ Call
    \/ OpenImage
    \/ EncodeText
    \/ SampleLatents
    \/ Denoise
    \/ MaskStep
    \/ Blend
    \/ Decode

Spec == Init /\ [][Next]_vars

SpecMorph == InitMorph /\ [][Next]_vars

\* ------------------------------------------- _read_mask called on its own

GrayLevels == {0, 1, 2, 127, 128, 255}

\* the sides of the mask files: the mask's resolution and twice it
UnitSides == {MaskSide, 2 * MaskSide}

InitReadMask ==
    /\ argv_morph = "absent"
    /\ args_morph = ParseMorph(argv_morph)
    /\ image_exists = TRUE
    /\ mask_exists = TRUE
    /\ \E n \in UnitSides, lo \in GrayLevels, hi \in GrayLevels :
         \E r \in Rects(n) : mask_file = RectImage(n, r, lo, hi)
    /\ num_inference_steps = 1
    /\ blending_percentage = <<0, 1>>
    /\ default_generator = 0
    /\ cuda_generator = 0
    /\ pc = "unit"
    /\ results = << >>
    /\ Locals

\* mask, org_mask = self._read_mask(mask_path)
UnitReadMask ==
    /\ pc = "unit"
    /\ latent_mask' = ReadMask(mask_file)
    /\ pc' = "unit_done"
    /\ UNCHANGED <<inputs, default_generator, cuda_generator, source_latents,
                   latents, timesteps, total, threshold, dilation_init, i,
                   noise_source_latents, candidate, decoder_input, exception,
                   computed, morph_log, results>>

NextReadMask == UnitReadMask

SpecReadMask == InitReadMask /\ [][NextReadMask]_vars

\* --------------------------------------- morph_dilation called on its own

InitMorphDilation ==
    /\ argv_morph = "absent"
    /\ args_morph = PyBool(TRUE)
    /\ image_exists = TRUE
    /\ mask_exists = TRUE
    /\ mask_file \in MaskFiles
    /\ num_inference_steps = 1
    /\ blending_percentage = <<0, 1>>
    /\ default_generator = 0
    /\ cuda_generator = 0
    /\ pc = "unit"
    /\ results = << >>
    /\ source_latents = None
    /\ latents = None
    /\ timesteps = << >>
    /\ total = 0
    /\ threshold \in 0..MaxThreshold
    /\ dilation_init \in 0..MaxDilationInit
    /\ i = 0
    /\ latent_mask = None
    /\ noise_source_latents = None
    /\ candidate = None
    /\ decoder_input = None
    /\ exception = "none"
    /\ computed = << >>
    /\ morph_log = << >>

\* self.morph_dilation(np_mask, i, threshold, dilation_init) for the next i,
\* on the mask _read_mask returns
UnitMorphDilation ==
    /\ pc = "unit"
    /\ i <= MaxIndex
    /\ LET res == MorphDilation(ReadMask(mask_file), i, threshold, dilation_init)
       IN  /\ morph_log' = Append(morph_log, [res EXCEPT !.mask = << >>])
           /\ exception' = res.exception
           /\ latent_mask' = res.mask
    /\ i' = i + 1
    /\ UNCHANGED <<inputs, default_generator, cuda_generator, pc,
                   source_latents, latents, timesteps, total, threshold,
                   dilation_init, noise_source_latents, candidate,
                   decoder_input, computed, results>>

NextMorphDilation == UnitMorphDilation

SpecMorphDilation == InitMorphDilation /\ [][NextMorphDilation]_vars

\* ------------------------------------------------------------------ claims

\* an iteration of the loop has just blended (Blend is the last step taken
\* of iteration i - 1; Decode leaves latents as the last blend left them)
Blended == pc \in {"loop", "done"} /\ i > 0

\* the timestep of the iteration that has just blended
LastT == timesteps[(Len(timesteps) - total) + i]

\* C1: after every blend, at every position where the mask is 1 the blended
\* latent is the candidate latent of the sampler step, and at every position
\* where the mask is 0 it is the noised source latent.
C1_BlendExact ==
    Blended =>
        /\ \A p \in Pos : latent_mask[p] \in {0, 1}
        /\ \A p \in Pos :
             /\ latent_mask[p] = 1 => latents[p] = candidate[p]
             /\ latent_mask[p] = 0 => latents[p] = noise_source_latents[p]

C1_Witness ==
    /\ Blended
    /\ \E p \in Pos : latent_mask[p] = 1 /\ candidate[p] # noise_source_latents[p]
    /\ \E p \in Pos : latent_mask[p] = 0 /\ candidate[p] # noise_source_latents[p]

\* C2: with blending_percentage = 1.0, for every num_inference_steps, the loop
\* has no iteration (no mask is read, no noise is added to the source, the
\* noise-prediction network is never run), nothing is raised once the source
\* image is open, and the decoder is given the initial noise of this call
\* divided by 0.18215.
C2_ZeroIterations ==
    blending_percentage = <<1, 1>> =>
        /\ total = 0
        /\ i = 0
        /\ pc \notin {"mask", "blend"}
        /\ exception \in {"none", "FileNotFoundError:image"}
        /\ noise_source_latents = None
        /\ cuda_generator = 0
        /\ \A k \in 1..Len(computed) : computed[k] \notin {"unet", "scheduler.step"}
        /\ pc = "loop" => latents = Randn(default_generator - 1)
        /\ pc = "done" => decoder_input = Unscale(Randn(default_generator - 1))

C2_Witness ==
    /\ blending_percentage = <<1, 1>>
    /\ num_inference_steps > 1
    /\ pc = "done"
    /\ decoder_input = Unscale(Randn(default_generator - 1))

\* C3: two calls of edit_image on the same object with the same arguments and
\* the default generator return identical images.
C3_Deterministic ==
    \A a, b \in 1..Len(results) : results[a] = results[b]

\* C4: when edit_image fails on a missing image or a missing mask, no model
\* computation (autoencoder, text encoder, noise prediction, sampler step)
\* has run.
C4_FailsFast ==
    exception \in {"FileNotFoundError:image", "FileNotFoundError:mask"} =>
        computed = << >>

\* C5: with morphing enabled, computing the kernel side never raises, and a
\* kernel side of 0 leaves the mask as _read_mask returned it.
C5_DilationGuarded ==
    /\ exception # "ZeroDivisionError"
    /\ \A k \in 1..Len(morph_log) : morph_log[k].exception = "none"
    /\ (/\ pc = "blend"
        /\ morph_log # << >>
        /\ morph_log[Len(morph_log)].op = "dilate"
        /\ morph_log[Len(morph_log)].kernel_size = 0)
       => latent_mask = ReadMask(mask_file)

\* the largest gray value of the mask image once resized
ResizedMax == SetMax({Resize(mask_file)[p] : p \in Pos})

\* C6 as stated: every element of the mask _read_mask returns is 1 exactly
\* when the pixel's gray value g has g / 255 >= 0.5, and 0 otherwise, for all
\* mask images.
C6_ThresholdAlways ==
    pc = "unit_done" =>
        \A p \in Pos :
            latent_mask[p] = IF 2 * Resize(mask_file)[p] >= 255 THEN 1 ELSE 0

\* C6 amended: every element is 0 or 1; when the largest gray value of the
\* resized mask image exceeds 1, an element is 1 exactly when g >= 128
\* (g / 255 >= 0.5); when the largest gray value is 0 or 1 the array is not
\* normalized and an element is 1 exactly when g = 1.
C6_Threshold ==
    pc = "unit_done" =>
        \A p \in Pos :
            LET g == Resize(mask_file)[p]
            IN  /\ latent_mask[p] \in {0, 1}
                /\ ResizedMax > 1 => (latent_mask[p] = 1 <=> g >= 128)
                /\ ResizedMax <= 1 => (latent_mask[p] = 1 <=> g = 1)

C6_Witness ==
    /\ pc = "unit_done"
    /\ ResizedMax = 1
    /\ \E p \in Pos : latent_mask[p] = 1
    /\ \E p \in Pos : latent_mask[p] = 0 /\ Resize(mask_file)[p] = 0

\* C7: for a threshold >= 1, the kernel sides of the dilating calls of
\* morph_dilation do not decrease as the step index grows.
C7_KernelMonotone ==
    \A a, b \in 1..Len(morph_log) :
        (/\ threshold >= 1
         /\ morph_log[a].op = "dilate"
         /\ morph_log[b].op = "dilate"
         /\ morph_log[a].i < morph_log[b].i)
        => morph_log[a].kernel_size <= morph_log[b].kernel_size

C7_Witness ==
    /\ threshold >= 2
    /\ dilation_init >= 1
    /\ \E a, b \in 1..Len(morph_log) :
         /\ morph_log[a].op = "dilate"
         /\ morph_log[b].op = "dilate"
         /\ morph_log[a].i < morph_log[b].i
         /\ morph_log[a].kernel_size < morph_log[b].kernel_size
    /\ \E a \in 1..Len(morph_log) :
         /\ morph_log[a].op = "dilate"
         /\ a < Len(morph_log)
         /\ morph_log[a].kernel_size = morph_log[a + 1].kernel_size

\* --morph was given a true value on the command line
MorphRequested == argv_morph \in {"True", "1"}

\* C8: when --morph is given a true value, the mask of every blend is the
\* output of morph_dilation; when it is not, the mask of every blend is the
\* static thresholded mask and morph_dilation is never called.
C8_MorphFlag ==
    pc = "blend" =>
        IF MorphRequested
        THEN /\ Len(morph_log) = i + 1
             /\ latent_mask =
                    MorphDilation(ReadMask(mask_file), i, threshold,
                                  dilation_init).mask
        ELSE /\ morph_log = << >>
             /\ latent_mask = ReadMask(mask_file)

\* C9: in every iteration the source latents are those _image2latent returned,
\* the mask of the blend is computed from the mask read from the mask image and
\* i alone, and the noised source is add_noise of the clean source latents.
C9_Frame ==
    /\ pc \in {"text", "randn", "loop", "mask", "blend", "done"}
         => source_latents = Image2Latent(SourceImage)
    /\ pc = "blend"
         => latent_mask =
                MorphDilation(ReadMask(mask_file), i, threshold,
                              dilation_init).mask
    /\ Blended
         => noise_source_latents =
                AddNoise(Image2Latent(SourceImage),
                         RandnLike(cuda_generator - 1), LastT)

C9_Witness ==
    /\ Blended
    /\ i >= 2
    /\ latents # source_latents
    /\ latent_mask # ReadMask(mask_file)
    /\ Len(morph_log) >= 2
    /\ morph_log[1].op = "erode"
    /\ morph_log[Len(morph_log)].op = "dilate"

\* the number of timesteps processed
Processed ==
    num_inference_steps
      - ((num_inference_steps * blending_percentage[1]) \div blending_percentage[2])

\* C10: with morphing enabled the threshold is floor(T / 2) and every processed
\* step erodes with a 2 x 2 element when i < threshold and dilates otherwise.
C10_Phases ==
    /\ pc \in {"loop", "mask", "blend", "done", "raised"} /\ timesteps # << >>
         => total = Processed /\ threshold = Processed \div 2
    /\ exception # "ZeroDivisionError"
    /\ \A k \in 1..Len(morph_log) :
         /\ morph_log[k].i = k - 1
         /\ morph_log[k].exception = "none"
         /\ k - 1 < Processed \div 2
              => morph_log[k].op = "erode" /\ morph_log[k].kernel_size = 2
         /\ k - 1 >= Processed \div 2 => morph_log[k].op = "dilate"

====
